---- MODULE Spec2Model ----
(***************************************************************************)
(* Model of chromium-websocket-wrapper.js: the WebSocket wrapper that      *)
(* buffers properties and listeners of a page's WebSocket until the        *)
(* extension allowed or blocked it.  The file holds two implementations:   *)
(*   impl "A" (lines 22-429): the wrapper parameterised by a channel       *)
(*            (messageChannel, lines 52-117, or imageChannel, 123-143);    *)
(*   impl "B" (lines 452-680): the wrapper with the image probe inlined.   *)
(***************************************************************************)
EXTENDS Integers, Sequences, FiniteSets, TLC

(***************************************************************************)
(* Bounds of the model.                                                    *)
(***************************************************************************)
\* The steps that change the state, all together: calls of the constructor,
\* writes and registrations a bag buffers, calls and events on real sockets
\* after their construction, and responses handled.
MaxWork == 5

(***************************************************************************)
(* Program constants.                                                      *)
(***************************************************************************)
CONNECTING == 0
OPEN == 1
CLOSING == 2
CLOSED == 3

DIRECTION_OUT == "to-page-script@websocket-blocker"
DIRECTION_IN == "from-page-script@websocket-blocker"

(***************************************************************************)
(* JavaScript values.  tag: "null", "str", "num" or "fn"; this: the proxy  *)
(* a function is bound to (0: not bound).  A string is the sequence of its *)
(* pieces of text, "" being <<>>.                                          *)
(***************************************************************************)
Null == [tag |-> "null", s |-> <<>>, n |-> 0, this |-> 0]
Str(x) == [tag |-> "str", s |-> x, n |-> 0, this |-> 0]
Num(k) == [tag |-> "num", s |-> <<>>, n |-> k, this |-> 0]
Fn(x) == [tag |-> "fn", s |-> <<x>>, n |-> 0, this |-> 0]

IsFunction(v) == v.tag = "fn"

\* ToBoolean of a value, as in "if (bag.properties.onerror)"
Truthy(v) ==
    \/ v.tag = "fn"
    \/ v.tag = "str" /\ v.s # <<>>
    \/ v.tag = "num" /\ v.n # 0

\* Function.prototype.bind: a bound function keeps its first binding
Bind(v, wrapper) ==
    IF IsFunction(v) /\ v.this = 0 THEN [v EXCEPT !.this = wrapper] ELSE v

\* what a page function does when it is called: "g" throws, any other returns
Throws(h) == h.s = <<"g">>

(***************************************************************************)
(* What page script passes in.                                             *)
(***************************************************************************)
WsUrl == <<"w", "s", ":", "h">>
WssUrl == <<"w", "s", "s", ":", "h">>
Urls == {WsUrl, WssUrl}

WritableProps == {"binaryType", "onclose", "onerror", "onmessage", "onopen"}
ReadOnlyProps == {"bufferedAmount", "extensions", "protocol", "readyState", "url"}
AllProps == WritableProps \cup ReadOnlyProps

PageValues(prop) ==
    IF prop = "binaryType" THEN {Str(<<"arraybuffer">>)}
    ELSE IF prop = "onerror" THEN {Fn("f"), Fn("g"), Null}
    ELSE IF prop \in WritableProps THEN {Fn("f")}
    ELSE {Num(1)}

\* the properties page script writes
PropsWritten == {"binaryType", "onerror", "onopen", "readyState", "url"}

\* the (event, useCapture) arguments of addEventListener
ListenerArgs == {<<"error", FALSE>>, <<"open", TRUE>>}
Callbacks == {Fn("f"), Str(<<"x">>)}

\* mutant: the test compares two characters, and takes 'wss:' for 'ws:'
StartsWithWsLoose(url) == Len(url) >= 2 /\ SubSeq(url, 1, 2) = <<"w", "s">>

\* url.lastIndexOf('ws:', 0) === 0
StartsWithWs(url) == Len(url) >= 3 /\ SubSeq(url, 1, 3) = <<"w", "s", ":">>

(***************************************************************************)
(* State.                                                                  *)
(***************************************************************************)
VARIABLES
    impl,             \* "A" or "B": which of the two wrappers is installed
    channel,          \* "message" or "image": the channel impl A was given
    https,            \* window.location.protocol === 'https:'
    created,          \* proxies the constructor returned, numbered 1..created
    map,              \* the WeakMap: proxy -> bag, real socket or nothing
    sockets,          \* the real sockets made by new Wrapped(...), in order
    currentRequestId, \* messageChannel
    requestsMap,      \* messageChannel: set of [requestId, wrapper]
    subscribed,       \* number of "message" listeners added to window
    posted,           \* messages the channel posted on window
    img,              \* the probe image of each proxy; fired: its event so far
    decisions,        \* history: responses handled for each proxy
    errorCalls,       \* history: calls of a buffered onerror, per proxy
    resolvedBag,      \* history: the bag replayed onto the real socket
    pageLog,          \* history: the writes and registrations a bag buffered
    ctorLog,          \* history: the url and the steps of the constructor
    escaped,          \* history: the urls of the constructor calls that threw
    replies,          \* history: the replies handled for each proxy
    forwarded,        \* history: the calls of page script passed to a real socket
    steps             \* the steps taken so far that changed the state

vars == <<steps, impl, channel, https, created, map, sockets, currentRequestId,
          requestsMap, subscribed, posted, img, decisions, errorCalls,
          resolvedBag, pageLog, ctorLog, escaped, replies,
          forwarded>>

Proxies == 1..MaxWork

NoEntry == [kind |-> "none"]
NewBag(url) == [kind |-> "bag", args |-> url, listeners |-> <<>>, properties |-> <<>>]
SocketRef(id) == [kind |-> "socket", id |-> id]

\* wrapped instanceof Wrapped
IsWrapped(entry) == entry.kind = "socket"
IsBag(entry) == entry.kind = "bag"

(***************************************************************************)
(* The properties object of a bag: an insertion-ordered list of            *)
(* [name, value]; for-in enumerates it in this order.                      *)
(***************************************************************************)
HasOwnProperty(props, name) == \E i \in 1..Len(props) : props[i].name = name

GetOwn(props, name) ==
    IF HasOwnProperty(props, name)
    THEN props[CHOOSE i \in 1..Len(props) : props[i].name = name].value
    ELSE Null

\* mutant: an overwritten property moves to the end of the enumeration
PutOwnMoveToEnd(props, name, value) ==
    Append(SelectSeq(props, LAMBDA e : e.name # name), [name |-> name, value |-> value])

PutOwn(props, name, value) ==
    IF HasOwnProperty(props, name)
    THEN [i \in 1..Len(props) |->
             IF props[i].name = name THEN [name |-> name, value |-> value] ELSE props[i]]
    ELSE Append(props, [name |-> name, value |-> value])

(***************************************************************************)
(* Real sockets.  calls: every call made on the socket and every event it  *)
(* dispatched, in order; base: the calls made by the handler that          *)
(* constructed it; owner: the proxy it was constructed for; transient:     *)
(* made by the constructor's check of an https page.                       *)
(***************************************************************************)
Call(op, name, value, fl) == [op |-> op, name |-> name, value |-> value, fl |-> fl]

NewSocket(url, owner, transient, calls, rs) ==
    [url |-> url, owner |-> owner, transient |-> transient, calls |-> calls,
     base |-> Len(calls), readyState |-> rs]

RECURSIVE SumLen(_, _)
SumLen(f, S) ==
    IF S = {} THEN 0
    ELSE LET x == CHOOSE y \in S : TRUE IN f[x] + SumLen(f, S \ {x})

TotalBuffered == SumLen([p \in 1..created |-> Len(pageLog[p])], 1..created)

TotalDecisions == SumLen([p \in 1..created |-> Len(decisions[p])], 1..created)

TotalCalls ==
    SumLen([i \in 1..Len(sockets) |-> Len(sockets[i].calls) - sockets[i].base],
           1..Len(sockets))

\* the steps taken so far that changed the state, counted from the state
Work == created + Len(escaped) + TotalBuffered + TotalCalls + TotalDecisions

\* a step that changes the state is taken while the bound allows one
Step == steps < MaxWork /\ steps' = steps + 1

\* the counter of steps is the count of what the steps left in the state
StepsCounted == steps = Work

Init ==
    /\ impl \in {"A", "B"}
    /\ channel \in {"message", "image"}
    /\ impl = "B" => channel = "image"
    /\ https \in BOOLEAN
    /\ created = 0
    /\ map = [p \in Proxies |-> NoEntry]
    /\ sockets = <<>>
    /\ currentRequestId = 0
    /\ requestsMap = {}
    /\ subscribed = 0
    /\ posted = <<>>
    /\ img = [p \in Proxies |-> [loading |-> FALSE, handlers |-> FALSE, fired |-> "none"]]
    /\ decisions = [p \in Proxies |-> <<>>]
    /\ errorCalls = [p \in Proxies |-> <<>>]
    /\ resolvedBag = [p \in Proxies |-> NoEntry]
    /\ pageLog = [p \in Proxies |-> <<>>]
    /\ ctorLog = [p \in Proxies |-> [url |-> <<>>, steps |-> <<>>]]
    /\ escaped = <<>>
    /\ replies = [p \in Proxies |-> <<>>]
    /\ forwarded = [p \in Proxies |-> <<>>]
    /\ steps = 0


(***************************************************************************)
(* Property reads (lines 208-221, 270-341).                                *)
(***************************************************************************)
DefaultValue(prop) ==
    CASE prop = "binaryType" -> Str(<<"blob">>)
      [] prop = "bufferedAmount" -> Num(0)
      [] prop = "readyState" -> Num(0)
      [] prop \in {"extensions", "protocol", "url"} -> Str(<<>>)
      [] OTHER -> Null

\* the last value assigned to a property of a real socket, if any
LastSet(calls, prop, default) ==
    LET I == {i \in 1..Len(calls) : calls[i].op = "set" /\ calls[i].name = prop}
    IN IF I = {} THEN default ELSE calls[CHOOSE i \in I : \A j \in I : j <= i].value

\* wrapped[prop] of a real socket
SocketProperty(sock, prop) ==
    CASE prop = "readyState" -> Num(sock.readyState)
      [] prop = "url" -> Str(sock.url)
      [] prop \in WritableProps -> LastSet(sock.calls, prop, DefaultValue(prop))
      [] OTHER -> DefaultValue(prop)

\* mutant: while the real socket does not exist the default is returned
getWrappedPropertyDefaultOnly(wrapper, prop, defaultValue) ==
    LET wrapped == map[wrapper] IN
    IF wrapped.kind = "none" THEN defaultValue
    ELSE IF IsWrapped(wrapped) THEN SocketProperty(sockets[wrapped.id], prop)
    ELSE defaultValue

getWrappedProperty(wrapper, prop, defaultValue) ==
    LET wrapped == map[wrapper] IN
    IF wrapped.kind = "none" THEN defaultValue
    ELSE IF IsWrapped(wrapped) THEN SocketProperty(sockets[wrapped.id], prop)
    ELSE IF HasOwnProperty(wrapped.properties, prop)
         THEN GetOwn(wrapped.properties, prop)
         ELSE defaultValue

\* the accessor of the proxy: proxy[prop]
ReadProperty(wrapper, prop) == getWrappedProperty(wrapper, prop, DefaultValue(prop))

(***************************************************************************)
(* The response handlers.  Each yields the new map, sockets and histories, *)
(* and whether it threw.                                                   *)
(***************************************************************************)
Outcome(m, s, e, r, threw) ==
    [map |-> m, sockets |-> s, errorCalls |-> e, resolvedBag |-> r, threw |-> threw]

NoChange(threw) == Outcome(map, sockets, errorCalls, resolvedBag, threw)

\* for (var p in bag.properties) { wrapped[p] = bag.properties[p]; }
ReplayProperties(bag) ==
    [i \in 1..Len(bag.properties) |->
        Call("set", bag.properties[i].name, bag.properties[i].value, FALSE)]

\* mutant: the loop runs from the last listener to the first
ReplayListenersReversed(bag) ==
    [i \in 1..Len(bag.listeners) |->
        Call("addEventListener", bag.listeners[Len(bag.listeners) + 1 - i].ev,
             bag.listeners[Len(bag.listeners) + 1 - i].cb,
             bag.listeners[Len(bag.listeners) + 1 - i].fl)]

\* for (...) { l = bag.listeners[i]; wrapped.addEventListener(l.ev, l.cb, l.fl); }
ReplayListeners(bag) ==
    [i \in 1..Len(bag.listeners) |->
        Call("addEventListener", bag.listeners[i].ev, bag.listeners[i].cb,
             bag.listeners[i].fl)]

\* the properties a strict-mode assignment to a native socket accepts
Assignable(props) ==
    IF \E i \in 1..Len(props) : props[i].name \in ReadOnlyProps
    THEN SubSeq(props, 1,
                (CHOOSE i \in 1..Len(props) :
                    /\ props[i].name \in ReadOnlyProps
                    /\ \A j \in 1..(i - 1) : props[j].name \notin ReadOnlyProps) - 1)
    ELSE props

\* mutant: the exception of the native constructor leaves the handler
ConstructionFailedThrows == NoChange(TRUE)

\* lines 175-181: the exception is caught and logged, wrapped stays null and
\* the handler returns
ConstructionFailed == NoChange(FALSE)

\* mutant: the side-table is switched to the new socket without the replay
MaterializeWithoutReplay(wrapper, nativeOk) ==
    LET bag == map[wrapper] IN
    IF ~IsBag(bag) \/ ~nativeOk
    THEN NoChange(FALSE)
    ELSE Outcome([map EXCEPT ![wrapper] = SocketRef(Len(sockets) + 1)],
                 Append(sockets, NewSocket(bag.args, wrapper, FALSE, <<>>, CONNECTING)),
                 errorCalls,
                 [resolvedBag EXCEPT ![wrapper] = bag],
                 FALSE)

\* lines 172-192 (and 467-483): construct the real socket and replay the bag
Materialize(wrapper, nativeOk) ==
    LET bag == map[wrapper] IN
    IF ~IsBag(bag) \/ ~nativeOk
    THEN ConstructionFailed
    ELSE IF Assignable(bag.properties) # bag.properties
    THEN \* assigning a read-only property of the native socket throws
         Outcome(map,
                 Append(sockets,
                        NewSocket(bag.args, wrapper, FALSE,
                                  ReplayProperties([bag EXCEPT !.properties = Assignable(@)]),
                                  CONNECTING)),
                 errorCalls, resolvedBag, TRUE)
    ELSE Outcome([map EXCEPT ![wrapper] = SocketRef(Len(sockets) + 1)],
                 Append(sockets,
                        NewSocket(bag.args, wrapper, FALSE,
                                  ReplayProperties(bag) \o ReplayListeners(bag),
                                  CONNECTING)),
                 errorCalls,
                 [resolvedBag EXCEPT ![wrapper] = bag],
                 FALSE)

\* bag.properties.onerror(new window.ErrorEvent('error')), when it is a function
InvokeOnError(wrapper, h) ==
    [errorCalls EXCEPT ![wrapper] =
        Append(@, [handler |-> h,
                   readyState |-> ReadProperty(wrapper, "readyState").n])]

\* bag.properties.readyState = WebSocket.CLOSED
ForceClosed(m, wrapper) ==
    [m EXCEPT ![wrapper].properties = PutOwn(@, "readyState", Num(CLOSED))]

\* mutant: readyState is set to CLOSED before the handler is called
BlockAClosesFirst(wrapper) ==
    LET bag == map[wrapper] IN
    IF ~IsBag(bag) THEN NoChange(TRUE)
    ELSE LET h == GetOwn(bag.properties, "onerror") IN
         IF ~Truthy(h)
         THEN Outcome(ForceClosed(map, wrapper), sockets, errorCalls, resolvedBag, FALSE)
         ELSE IF ~IsFunction(h)
         THEN Outcome(ForceClosed(map, wrapper), sockets, errorCalls, resolvedBag, TRUE)
         ELSE Outcome(ForceClosed(map, wrapper), sockets,
                      [errorCalls EXCEPT ![wrapper] =
                          Append(@, [handler |-> h, readyState |-> CLOSED])],
                      resolvedBag, Throws(h))

\* lines 164-170
BlockA(wrapper) ==
    LET bag == map[wrapper] IN
    IF ~IsBag(bag) THEN NoChange(TRUE)      \* bag.properties is undefined
    ELSE LET h == GetOwn(bag.properties, "onerror") IN
         IF ~Truthy(h)
         THEN Outcome(ForceClosed(map, wrapper), sockets, errorCalls, resolvedBag, FALSE)
         ELSE IF ~IsFunction(h) THEN NoChange(TRUE)       \* not a function
         ELSE IF Throws(h)
         THEN Outcome(map, sockets, InvokeOnError(wrapper, h), resolvedBag, TRUE)
         ELSE Outcome(ForceClosed(map, wrapper), sockets, InvokeOnError(wrapper, h),
                      resolvedBag, FALSE)

\* lines 461-466
BlockB(wrapper) ==
    LET bag == map[wrapper] IN
    IF ~IsBag(bag) THEN NoChange(TRUE)
    ELSE LET h == GetOwn(bag.properties, "onerror") IN
         IF ~Truthy(h) THEN NoChange(FALSE)
         ELSE IF ~IsFunction(h) THEN NoChange(TRUE)
         ELSE Outcome(map, sockets, InvokeOnError(wrapper, h), resolvedBag, Throws(h))

\* impl A, lines 161-193
channelResponseReceived(wrapper, blockConnection, nativeOk) ==
    IF blockConnection THEN BlockA(wrapper) ELSE Materialize(wrapper, nativeOk)

\* impl B, lines 458-484 (this.onload = this.onerror = null is in the actions)
onResponseReceived(wrapper, ok, nativeOk) ==
    IF ~ok THEN BlockB(wrapper) ELSE Materialize(wrapper, nativeOk)

Decision(blocked) == IF blocked THEN "block" ELSE "allow"

\* the state after a response handler ran for wrapper
Resolved(wrapper, blocked, out) ==
    /\ map' = out.map
    /\ sockets' = out.sockets
    /\ errorCalls' = out.errorCalls
    /\ resolvedBag' = out.resolvedBag
    /\ decisions' = [decisions EXCEPT ![wrapper] = Append(@, Decision(blocked))]


(***************************************************************************)
(* The channels (lines 89-112 and 132-138).                                *)
(***************************************************************************)
\* mutant: the request is posted with the tag of a reply
RequestWithReplyTag(requestId, url) ==
    [source |-> "page", data |-> TRUE, direction |-> DIRECTION_OUT,
     requestId |-> requestId, block |-> FALSE, elementUrl |-> url]

\* lines 103-108
Request(requestId, url) ==
    [source |-> "page", data |-> TRUE, direction |-> DIRECTION_IN,
     requestId |-> requestId, block |-> FALSE, elementUrl |-> url]

\* mutant: the listener is added whenever no request is waiting
MessageSendSubscribeWhenIdle(url, wrapper) ==
    /\ subscribed' = IF requestsMap = {} THEN subscribed + 1 ELSE subscribed
    /\ currentRequestId' = currentRequestId + 1
    /\ requestsMap' =
           {r \in requestsMap : r.requestId # currentRequestId + 1}
               \cup {[requestId |-> currentRequestId + 1, wrapper |-> wrapper]}
    /\ posted' = Append(posted, Request(currentRequestId + 1, url))
    /\ UNCHANGED img

\* lines 89-112
MessageSend(url, wrapper) ==
    /\ subscribed' = IF currentRequestId = 0 THEN subscribed + 1 ELSE subscribed
    /\ currentRequestId' = currentRequestId + 1
    /\ requestsMap' =
           {r \in requestsMap : r.requestId # currentRequestId + 1}
               \cup {[requestId |-> currentRequestId + 1, wrapper |-> wrapper]}
    /\ posted' = Append(posted, Request(currentRequestId + 1, url))
    /\ UNCHANGED img

ImageSend(url, wrapper) ==
    /\ img' = [img EXCEPT ![wrapper] =
                  [loading |-> TRUE, handlers |-> TRUE, fired |-> "none"]]
    /\ UNCHANGED <<subscribed, currentRequestId, requestsMap, posted>>

(***************************************************************************)
(* The constructor (lines 258-359 and 516-613).                            *)
(***************************************************************************)
\* mutant: the check does not look at the protocol of the page
PreCheckOnAnyPage(url, nativeOk) ==
    IF StartsWithWs(url)
    THEN IF nativeOk
         THEN [threw |-> FALSE,
               sockets |-> Append(sockets,
                                  NewSocket(url, created + 1, TRUE,
                                            <<Call("close", "", Null, FALSE)>>,
                                            CLOSING)),
               log |-> <<"new Wrapped", "close">>]
         ELSE [threw |-> TRUE, sockets |-> sockets, log |-> <<>>]
    ELSE [threw |-> FALSE, sockets |-> sockets, log |-> <<>>]

\* lines 260-268: the real socket opened and closed on an https page
PreCheck(url, nativeOk) ==
    IF https /\ StartsWithWs(url)
    THEN IF nativeOk
         THEN [threw |-> FALSE,
               sockets |-> Append(sockets,
                                  NewSocket(url, created + 1, TRUE,
                                            <<Call("close", "", Null, FALSE)>>,
                                            CLOSING)),
               log |-> <<"new Wrapped", "close">>]
         ELSE [threw |-> TRUE, sockets |-> sockets, log |-> <<>>]
    ELSE [threw |-> FALSE, sockets |-> sockets, log |-> <<>>]

Constructed(url, pre) ==
    /\ Step
    /\ created' = created + 1
    /\ sockets' = pre.sockets
    /\ map' = [map EXCEPT ![created + 1] = NewBag(url)]
    /\ ctorLog' = [ctorLog EXCEPT ![created + 1] =
                       [url |-> url, steps |-> pre.log \o <<"map.set", "sendMessage">>]]
    /\ UNCHANGED <<impl, channel, https, decisions, errorCalls, resolvedBag, pageLog,
                   escaped, replies, forwarded>>

\* the exception of new Wrapped(url, protocols) leaves the constructor
CtorThrew(url) ==
    /\ Step
    /\ escaped' = Append(escaped, url)
    /\ UNCHANGED <<impl, channel, https, created, map, sockets, currentRequestId,
                   requestsMap, subscribed, posted, img, decisions, errorCalls,
                   resolvedBag, pageLog, ctorLog, replies, forwarded>>

WebSocketA(url, nativeOk) ==
    /\ impl = "A"
    /\ LET pre == PreCheck(url, nativeOk) IN
       IF pre.threw THEN CtorThrew(url)
       ELSE /\ Constructed(url, pre)
            /\ IF channel = "message"
               THEN MessageSend(url, created + 1)
               ELSE ImageSend(url, created + 1)

WebSocketB(url, nativeOk) ==
    /\ impl = "B"
    /\ LET pre == PreCheck(url, nativeOk) IN
       IF pre.threw THEN CtorThrew(url)
       ELSE /\ Constructed(url, pre)
            /\ ImageSend(url, created + 1)

(***************************************************************************)
(* What page script does with a proxy.                                     *)
(***************************************************************************)
\* mutant: the call is made on the first socket the page constructed
SocketCallOnFirst(id, call) ==
    /\ Step
    /\ sockets' = [sockets EXCEPT ![1].calls = Append(@, call)]
    /\ UNCHANGED <<impl, channel, https, created, map, currentRequestId, requestsMap,
                   subscribed, posted, img, decisions, errorCalls, resolvedBag,
                   pageLog, ctorLog, escaped, replies>>

SocketCall(id, call) ==
    /\ Step
    /\ sockets' = [sockets EXCEPT ![id].calls = Append(@, call)]
    /\ UNCHANGED <<impl, channel, https, created, map, currentRequestId, requestsMap,
                   subscribed, posted, img, decisions, errorCalls, resolvedBag,
                   pageLog, ctorLog, escaped, replies>>

\* history: the call as page script made it on the proxy
Forward(wrapper, call) ==
    forwarded' = [forwarded EXCEPT ![wrapper] = Append(@, call)]

Buffered(wrapper, newMap, call) ==
    /\ Step
    /\ map' = newMap
    /\ pageLog' = [pageLog EXCEPT ![wrapper] = Append(@, call)]
    /\ UNCHANGED <<impl, channel, https, created, sockets, currentRequestId,
                   requestsMap, subscribed, posted, img, decisions, errorCalls,
                   resolvedBag, ctorLog, escaped, replies, forwarded>>

\* lines 230-245 and 501-514
setWrappedProperty(wrapper, prop, value) ==
    LET v == Bind(value, wrapper)
        wrapped == map[wrapper]
    IN IF wrapped.kind = "none" THEN UNCHANGED vars
       ELSE IF IsWrapped(wrapped)
       THEN /\ SocketCall(wrapped.id, Call("set", prop, v, FALSE))
            /\ Forward(wrapper, Call("set", prop, value, FALSE))
       ELSE Buffered(wrapper, [map EXCEPT ![wrapper].properties = PutOwn(@, prop, v)],
                     Call("set", prop, value, FALSE))

\* proxy[prop] = value: the setters of lines 270-341
SetProperty(wrapper, prop, value) ==
    /\ wrapper \in 1..created
    /\ IF prop \in WritableProps
       THEN setWrappedProperty(wrapper, prop, value)
       ELSE UNCHANGED vars         \* set: emptyFunction

\* lines 368-386
AddEventListener(wrapper, ev, cb, fl) ==
    /\ wrapper \in 1..created
    /\ IF ~IsFunction(cb) THEN UNCHANGED vars
       ELSE LET wrapped == map[wrapper]
                cbb == Bind(cb, wrapper)
            IN IF wrapped.kind = "none" THEN UNCHANGED vars
               ELSE IF IsWrapped(wrapped)
               THEN /\ SocketCall(wrapped.id, Call("addEventListener", ev, cbb, fl))
                    /\ Forward(wrapper, Call("addEventListener", ev, cb, fl))
               ELSE Buffered(wrapper,
                             [map EXCEPT ![wrapper].listeners =
                                 Append(@, [ev |-> ev, cb |-> cbb, fl |-> fl])],
                             Call("addEventListener", ev, cb, fl))

\* the native close(): a socket that is not closed starts closing
NativeClose(sock) ==
    IF sock.readyState \in {CONNECTING, OPEN} THEN [sock EXCEPT !.readyState = CLOSING]
    ELSE sock

\* mutant: close() of a proxy without a real socket drops its bag
CloseDropsBag(wrapper) ==
    /\ wrapper \in 1..created
    /\ LET wrapped == map[wrapper] IN
       IF IsWrapped(wrapped)
       THEN /\ Step
            /\ sockets' = [sockets EXCEPT ![wrapped.id] =
                              NativeClose([@ EXCEPT !.calls =
                                              Append(@, Call("close", "", Null, FALSE))])]
            /\ Forward(wrapper, Call("close", "", Null, FALSE))
            /\ UNCHANGED <<impl, channel, https, created, map, currentRequestId,
                           requestsMap, subscribed, posted, img, decisions, errorCalls,
                           resolvedBag, pageLog, ctorLog, escaped, replies>>
       ELSE /\ Step
            /\ map' = [map EXCEPT ![wrapper] = NoEntry]
            /\ UNCHANGED <<impl, channel, https, created, sockets, currentRequestId,
                           requestsMap, subscribed, posted, img, decisions, errorCalls,
                           resolvedBag, pageLog, ctorLog, escaped, replies, forwarded>>

\* lines 387-397
Close(wrapper) ==
    /\ wrapper \in 1..created
    /\ LET wrapped == map[wrapper] IN
       IF IsWrapped(wrapped)
       THEN /\ Step
            /\ sockets' = [sockets EXCEPT ![wrapped.id] =
                              NativeClose([@ EXCEPT !.calls =
                                              Append(@, Call("close", "", Null, FALSE))])]
            /\ Forward(wrapper, Call("close", "", Null, FALSE))
            /\ UNCHANGED <<impl, channel, https, created, map, currentRequestId,
                           requestsMap, subscribed, posted, img, decisions, errorCalls,
                           resolvedBag, pageLog, ctorLog, escaped, replies>>
       ELSE UNCHANGED vars

\* mutant: data sent before the real socket exists is kept in the bag
SendBuffered(wrapper, data) ==
    /\ wrapper \in 1..created
    /\ LET wrapped == map[wrapper] IN
       IF IsWrapped(wrapped)
       THEN /\ SocketCall(wrapped.id, Call("send", data, Null, FALSE))
            /\ Forward(wrapper, Call("send", data, Null, FALSE))
       ELSE /\ Step
            /\ map' = [map EXCEPT ![wrapper].listeners =
                           Append(@, [ev |-> data, cb |-> Null, fl |-> FALSE])]
            /\ UNCHANGED <<impl, channel, https, created, sockets, currentRequestId,
                           requestsMap, subscribed, posted, img, decisions, errorCalls,
                           resolvedBag, pageLog, ctorLog, escaped, replies, forwarded>>

\* lines 405-415
Send(wrapper, data) ==
    /\ wrapper \in 1..created
    /\ LET wrapped == map[wrapper] IN
       IF IsWrapped(wrapped)
       THEN /\ SocketCall(wrapped.id, Call("send", data, Null, FALSE))
            /\ Forward(wrapper, Call("send", data, Null, FALSE))
       ELSE UNCHANGED vars

(***************************************************************************)
(* Events of the event loop.                                               *)
(***************************************************************************)
\* source: who called postMessage, page script or the extension's content
\* script; the listener is given both alike
Message(source, data, direction, requestId, block) ==
    [source |-> source, data |-> data, direction |-> direction,
     requestId |-> requestId, block |-> block, elementUrl |-> <<>>]

\* the messages other scripts post on the window: without data, without a
\* direction, with another direction, and replies for any request id
Messages ==
    {Message("page", FALSE, "", 0, FALSE), Message("page", TRUE, "", 1, TRUE),
     Message("page", TRUE, "other", 1, TRUE)}
        \cup {Message(source, TRUE, DIRECTION_OUT, id, block) :
                  source \in {"page", "extension"},
                  id \in 0..(currentRequestId + 1), block \in BOOLEAN}

\* whether new Wrapped(...) succeeds, where the handler of the message can
\* reach it: in the allow branch of a reply
NativeOutcomes(event) ==
    IF event.direction = DIRECTION_OUT /\ ~event.block THEN BOOLEAN ELSE {TRUE}

\* mutant: any message that has a direction is taken for a reply
AcceptsAnyDirection(event) == event.data /\ event.direction # ""

\* line 72: the message has data, a direction, and the direction of a reply
Accepts(event) ==
    event.data /\ event.direction # "" /\ event.direction = DIRECTION_OUT

\* mutant: the oldest request waiting is taken, whatever the id of the reply
LookupOldest(requestId) ==
    {r \in requestsMap : \A q \in requestsMap : r.requestId <= q.requestId}

\* line 76: requestsMap[event.data.requestId]
Lookup(requestId) == {r \in requestsMap : r.requestId = requestId}

\* lines 70-81: what the listener does with a message: whether it called the
\* callback of a request, for which proxy, the outcome of the callback and
\* the request table it leaves
Receive(event, nativeOk) ==
    IF ~Accepts(event) \/ Lookup(event.requestId) = {}
    THEN [called |-> FALSE, wrapper |-> 0, out |-> NoChange(FALSE),
          requestsMap |-> requestsMap]
    ELSE LET requestData == CHOOSE r \in Lookup(event.requestId) : TRUE
             out == channelResponseReceived(requestData.wrapper, event.block, nativeOk)
         IN [called |-> TRUE, wrapper |-> requestData.wrapper, out |-> out,
             \* line 80 is not reached when the callback threw
             requestsMap |-> IF out.threw THEN requestsMap
                             ELSE requestsMap \ Lookup(event.requestId)]

\* lines 70-82
onMessageReceived(event, nativeOk) ==
    /\ impl = "A" /\ channel = "message"
    /\ subscribed > 0
    /\ LET r == Receive(event, nativeOk) IN
       IF ~r.called THEN UNCHANGED vars
       ELSE /\ Step
            /\ Resolved(r.wrapper, event.block, r.out)
            /\ requestsMap' = r.requestsMap
            /\ replies' = [replies EXCEPT ![r.wrapper] = Append(@, event)]
            /\ UNCHANGED <<impl, channel, https, created, currentRequestId,
                           subscribed, posted, img, pageLog, ctorLog, escaped,
                           forwarded>>

\* the page's own outbound request reaches the channel's listener too
OwnMessage(i, nativeOk) ==
    /\ i \in 1..Len(posted)
    /\ onMessageReceived(posted[i], nativeOk)

ImageDone(wrapper, handlers, fired) ==
    /\ img' = [img EXCEPT ![wrapper] =
                  [loading |-> FALSE, handlers |-> handlers, fired |-> fired]]
    /\ UNCHANGED <<impl, channel, https, created, currentRequestId, requestsMap,
                   subscribed, posted, pageLog, ctorLog, escaped, replies, forwarded>>

\* line 135: img.onload = onResponseReceived.bind(img, wrapper, false)
OnLoadA(wrapper, nativeOk) == channelResponseReceived(wrapper, FALSE, nativeOk)

\* line 136: img.onerror = onResponseReceived.bind(img, wrapper, true)
OnErrorA(wrapper) == channelResponseReceived(wrapper, TRUE, TRUE)

\* mutant: the two handlers of the image are exchanged
OnLoadBExchanged(wrapper, nativeOk) == onResponseReceived(wrapper, FALSE, nativeOk)

\* line 611: img.onload = onResponseReceived.bind(img, this, true)
OnLoadB(wrapper, nativeOk) == onResponseReceived(wrapper, TRUE, nativeOk)

\* line 612: img.onerror = onResponseReceived.bind(img, this, false)
OnErrorB(wrapper) == onResponseReceived(wrapper, FALSE, TRUE)

ImgOnLoadA(wrapper, nativeOk) ==
    /\ impl = "A" /\ channel = "image"
    /\ img[wrapper].loading /\ img[wrapper].handlers
    /\ Step
    /\ Resolved(wrapper, FALSE, OnLoadA(wrapper, nativeOk))
    /\ ImageDone(wrapper, TRUE, "load")

ImgOnErrorA(wrapper) ==
    /\ impl = "A" /\ channel = "image"
    /\ img[wrapper].loading /\ img[wrapper].handlers
    /\ Step
    /\ Resolved(wrapper, TRUE, OnErrorA(wrapper))
    /\ ImageDone(wrapper, TRUE, "error")

\* line 459: this.onload = this.onerror = null
ImgOnLoadB(wrapper, nativeOk) ==
    /\ impl = "B"
    /\ img[wrapper].loading /\ img[wrapper].handlers
    /\ Step
    /\ Resolved(wrapper, FALSE, OnLoadB(wrapper, nativeOk))
    /\ ImageDone(wrapper, FALSE, "load")

ImgOnErrorB(wrapper) ==
    /\ impl = "B"
    /\ img[wrapper].loading /\ img[wrapper].handlers
    /\ Step
    /\ Resolved(wrapper, TRUE, OnErrorB(wrapper))
    /\ ImageDone(wrapper, FALSE, "error")

\* what an event the browser dispatches does to the state of a real socket
NativeEvent(sock, type) ==
    CASE type = "open" -> [sock EXCEPT !.readyState = OPEN]
      [] type = "close" -> [sock EXCEPT !.readyState = CLOSED]
      [] OTHER -> sock

EventTypes == {"open", "message", "error", "close"}

\* (the socket of the constructor's check has no handler: its events run no code)
SocketEvent(id, type) ==
    /\ id \in 1..Len(sockets)
    /\ ~sockets[id].transient
    /\ Step
    /\ CASE type = "open" -> sockets[id].readyState = CONNECTING
         [] type = "message" -> sockets[id].readyState = OPEN
         [] OTHER -> sockets[id].readyState # CLOSED
    /\ sockets' = [sockets EXCEPT ![id] =
                      NativeEvent([@ EXCEPT !.calls =
                                      Append(@, Call("event", type, Null, FALSE))], type)]
    /\ UNCHANGED <<impl, channel, https, created, map, currentRequestId, requestsMap,
                   subscribed, posted, img, decisions, errorCalls, resolvedBag,
                   pageLog, ctorLog, escaped, replies, forwarded>>

Next ==
    \/ \E url \in Urls, nativeOk \in BOOLEAN : WebSocketA(url, nativeOk)
    \/ \E url \in Urls, nativeOk \in BOOLEAN : WebSocketB(url, nativeOk)
    \/ \E w \in 1..created, prop \in PropsWritten : \E value \in PageValues(prop) :
            SetProperty(w, prop, value)
    \/ \E w \in 1..created, a \in ListenerArgs, cb \in Callbacks :
            AddEventListener(w, a[1], cb, a[2])
    \/ \E w \in 1..created : Close(w)
    \/ \E w \in 1..created : Send(w, "data")
    \/ \E event \in Messages : \E nativeOk \in NativeOutcomes(event) :
            onMessageReceived(event, nativeOk)
    \/ \E i \in 1..Len(posted), nativeOk \in BOOLEAN : OwnMessage(i, nativeOk)
    \/ \E w \in 1..created, nativeOk \in BOOLEAN : ImgOnLoadA(w, nativeOk)
    \/ \E w \in 1..created : ImgOnErrorA(w)
    \/ \E w \in 1..created, nativeOk \in BOOLEAN : ImgOnLoadB(w, nativeOk)
    \/ \E w \in 1..created : ImgOnErrorB(w)
    \/ \E id \in 1..Len(sockets), type \in EventTypes : SocketEvent(id, type)

Spec == Init /\ [][Next]_vars


(***************************************************************************)
(* Vocabulary of the claims.                                               *)
(***************************************************************************)
Range(s) == {s[i] : i \in 1..Len(s)}

Live == 1..created

\* a block decision was delivered to the response handler of the proxy
Blocked(p) == "block" \in Range(decisions[p])
\* the side-table holds the real socket
Allowed(p) == IsWrapped(map[p])
\* the side-table holds the bag, and no block decision was delivered
Pending(p) == IsBag(map[p]) /\ ~Blocked(p)

\* the real socket of an allowed proxy
RealSocket(p) == sockets[map[p].id]

\* the writes (registrations) of page script the bag of p buffered, in order
Writes(p) == SelectSeq(pageLog[p], LAMBDA c : c.op = "set")
Registrations(p) == SelectSeq(pageLog[p], LAMBDA c : c.op = "addEventListener")

\* the names written, in the order of their first write
RECURSIVE FirstNames(_)
FirstNames(w) ==
    IF w = <<>> THEN <<>>
    ELSE LET r == FirstNames(SubSeq(w, 1, Len(w) - 1))
             name == w[Len(w)].name
         IN IF name \in Range(r) THEN r ELSE Append(r, name)

LastWritten(w, name) ==
    w[CHOOSE i \in 1..Len(w) :
          w[i].name = name /\ \A j \in (i + 1)..Len(w) : w[j].name # name].value

\* the calls made on a real socket by the handler that constructed it
ReplayCalls(sock) == SubSeq(sock.calls, 1, sock.base)

\* the url begins with 'ws:'
InsecureUrl(url) == url = WsUrl

\* the assignments expected on the real socket of p: one per property written,
\* in the order of the first writes, of the last value written, converted
ExpectedSets(p, convert(_)) ==
    LET w == Writes(p)
        names == FirstNames(w)
    IN [k \in 1..Len(names) |->
            Call("set", names[k], convert(LastWritten(w, names[k])), FALSE)]

\* the assignments the resolution made on the real socket of p
AssignedOnReplay(p) == SelectSeq(ReplayCalls(RealSocket(p)), LAMBDA c : c.op = "set")

\* the addEventListener calls expected on the real socket of p
ExpectedListens(p) ==
    LET r == Registrations(p) IN
    [k \in 1..Len(r) |->
        Call("addEventListener", r[k].name, Bind(r[k].value, p), r[k].fl)]

(***************************************************************************)
(* C1 (as claimed): once a block decision was delivered for a proxy, the   *)
(* only real socket constructed for it is the transient socket of the      *)
(* constructor's check, and its side-table entry is never a real socket.   *)
(* Fails: on the message channel a throwing onerror keeps the request      *)
(* entry (C8), and a later allow reply constructs and stores a socket.     *)
(***************************************************************************)
C1_BlockedNeverConstructs ==
    \A p \in Live :
        Blocked(p) =>
            /\ ~Allowed(p)
            /\ \A i \in 1..Len(sockets) :
                   sockets[i].owner = p => sockets[i].transient

(***************************************************************************)
(* C2 (as claimed): every proxy is in exactly one of pending, allowed and  *)
(* blocked, and allowed and blocked are terminal: no step moves an allowed *)
(* proxy or a blocked proxy to another state.                              *)
(* Fails for the same reason as C1: blocked, then allowed.                 *)
(***************************************************************************)
C2_DecidedIsTerminal ==
    [][\A p \in Proxies :
          /\ (Allowed(p) /\ ~Blocked(p)) => (Allowed(p) /\ ~Blocked(p))'
          /\ (Blocked(p) /\ ~Allowed(p)) => (Blocked(p) /\ ~Allowed(p))']_vars

(***************************************************************************)
(* C3 (as claimed): after an allow resolution whose construction succeeds, *)
(* the assignments made on the real socket are, in the order of the first  *)
(* write of each property, the last value page script wrote to it; nothing *)
(* else is assigned.                                                       *)
(* Fails: a function is assigned in its form bound to the proxy.           *)
(***************************************************************************)
C3_LastValueAsWritten ==
    \A p \in Live :
        Allowed(p) => AssignedOnReplay(p) = ExpectedSets(p, LAMBDA v : v)

(***************************************************************************)
(* C3 (amended): ... the last value page script wrote to it, a function    *)
(* in its form bound to the proxy (value.bind(wrapper)); properties never  *)
(* written are not assigned.                                               *)
(***************************************************************************)
C3_LastValueBound ==
    \A p \in Live :
        Allowed(p) => AssignedOnReplay(p) = ExpectedSets(p, LAMBDA v : Bind(v, p))

\* an allowed proxy whose bag saw a property overwritten after another was written
C3_Witness ==
    \E p \in Live :
        /\ Allowed(p)
        /\ Len(Writes(p)) = 3
        /\ Writes(p)[1].name = Writes(p)[3].name
        /\ Writes(p)[1].name # Writes(p)[2].name
        /\ Writes(p)[1].value # Writes(p)[3].value
        /\ IsFunction(Writes(p)[3].value)

(***************************************************************************)
(* C4: after an allow resolution whose construction succeeds, the real     *)
(* socket got one addEventListener call per registration buffered with a   *)
(* function callback, with the same event name and capture flag and the    *)
(* callback bound to the proxy, in the order of the registrations, and     *)
(* after every replayed property.                                          *)
(***************************************************************************)
C4_ListenersReplayedInOrder ==
    \A p \in Live :
        Allowed(p) =>
            LET calls == ReplayCalls(RealSocket(p)) IN
            /\ SelectSeq(calls, LAMBDA c : c.op = "addEventListener") = ExpectedListens(p)
            /\ \A i, j \in 1..Len(calls) :
                   (calls[i].op = "set" /\ calls[j].op = "addEventListener") => i < j

\* an allowed proxy that had buffered a property and two different registrations
C4_Witness ==
    \E p \in Live :
        /\ Allowed(p)
        /\ Len(Registrations(p)) = 2
        /\ Registrations(p)[1] # Registrations(p)[2]
        /\ Len(Writes(p)) = 1

(***************************************************************************)
(* C5: construction, replay and the switch of the side-table entry are one *)
(* step: whenever a real socket of a proxy has dispatched an event, every  *)
(* property and listener buffered before the resolution had been put on    *)
(* the socket before that event, and the entry pointed at the socket.      *)
(***************************************************************************)
C5_NoEventBeforeReplay ==
    \A i \in 1..Len(sockets) :
        LET sock == sockets[i]
            p == sock.owner
        IN (~sock.transient /\ \E k \in 1..Len(sock.calls) : sock.calls[k].op = "event") =>
               /\ Allowed(p) /\ map[p].id = i
               /\ \A k \in 1..Len(sock.calls) :
                      sock.calls[k].op = "event" =>
                          /\ k > Len(ExpectedSets(p, LAMBDA v : Bind(v, p)))
                                 + Len(ExpectedListens(p))
                          /\ SubSeq(sock.calls, 1,
                                    Len(ExpectedSets(p, LAMBDA v : Bind(v, p)))
                                        + Len(ExpectedListens(p)))
                                 = ExpectedSets(p, LAMBDA v : Bind(v, p))
                                       \o ExpectedListens(p)

\* a real socket that dispatched an event, of a proxy that had buffered a
\* handler and a listener
C5_Witness ==
    \E p \in Live :
        /\ Allowed(p)
        /\ \E k \in 1..Len(RealSocket(p).calls) : RealSocket(p).calls[k].op = "event"
        /\ Writes(p) # <<>>
        /\ Registrations(p) # <<>>

(***************************************************************************)
(* C6 (as claimed): over the lifetime of a proxy a buffered onerror is     *)
(* called at most once, and only by a block resolution.                    *)
(* Fails: with the request entry kept (C8) a second block reply calls the  *)
(* handler again, also one written after the first block.                  *)
(***************************************************************************)
C6_OnErrorAtMostOnce ==
    \A p \in Live :
        /\ Len(errorCalls[p]) <= 1
        /\ ~Blocked(p) => errorCalls[p] = <<>>

(***************************************************************************)
(* C7 (as claimed): in both implementations, once a block decision was     *)
(* delivered the proxy's readyState reads CLOSED (3), whatever page script *)
(* does later.                                                             *)
(* Fails: implementation B never writes readyState; implementation A does  *)
(* not when the onerror handler throws.                                    *)
(***************************************************************************)
C7_ClosedAfterBlock ==
    \A p \in Live :
        Blocked(p) => ReadProperty(p, "readyState") = Num(CLOSED)

Dispatched(p) ==
    /\ IsBag(map[p]) /\ map[p].args = ctorLog[p].url
    /\ IF impl = "A" /\ channel = "message"
       THEN /\ \E r \in requestsMap : r.wrapper = p /\ r.requestId = currentRequestId
            /\ posted # <<>>
            /\ posted[Len(posted)] = Request(currentRequestId, ctorLog[p].url)
       ELSE img[p].loading /\ img[p].handlers

C11_OnlyExtensionDecides ==
    \A p \in Live :
        \A i \in 1..Len(replies[p]) : replies[p][i].source = "extension"

\* the calls page script made on a real socket through its proxy: the calls
\* after the replay that are not events the socket dispatched
PageCalls(sock) ==
    SelectSeq(SubSeq(sock.calls, sock.base + 1, Len(sock.calls)),
              LAMBDA c : c.op # "event")

\* the calls expected on the real socket of p for the calls page script made
\* on p since it is allowed, their function arguments converted
ExpectedCalls(p, convert(_)) ==
    [k \in 1..Len(forwarded[p]) |-> [forwarded[p][k] EXCEPT !.value = convert(@)]]

\* the calls of page script reach the real sockets of allowed proxies only
OnlyRealSocketsCalled ==
    \A i \in 1..Len(sockets) :
        PageCalls(sockets[i]) # <<>> => \E p \in Live : Allowed(p) /\ map[p].id = i

\* every read of an allowed proxy returns the value of its real socket
ReadsFromRealSocket ==
    \A p \in Live :
        Allowed(p) =>
            \A prop \in AllProps : ReadProperty(p, prop) = SocketProperty(RealSocket(p), prop)

(***************************************************************************)
(* C12 (as claimed): once a proxy is allowed, a read returns the value of  *)
(* the real socket, and every write to a writable property and every       *)
(* addEventListener (with a function), send and close made on the proxy is *)
(* one call on the real socket with the same arguments.                    *)
(* Fails: a function written or registered is passed on in its form bound  *)
(* to the proxy, not as page script passed it.                             *)
(***************************************************************************)
C12_DelegatedAsPassed ==
    /\ ReadsFromRealSocket
    /\ OnlyRealSocketsCalled
    /\ \A p \in Live :
           Allowed(p) => PageCalls(RealSocket(p)) = ExpectedCalls(p, LAMBDA v : v)

(***************************************************************************)
(* C12 (amended): ... is one call on the real socket with the same         *)
(* arguments, a function argument in its form bound to the proxy; no other *)
(* socket is called; and an allowed proxy stays allowed, with the same     *)
(* real socket, and nothing is buffered for it any more.                   *)
(***************************************************************************)
C12_DelegatedBound ==
    /\ [](/\ ReadsFromRealSocket
          /\ OnlyRealSocketsCalled
          /\ \A p \in Live :
                 Allowed(p) =>
                     PageCalls(RealSocket(p)) = ExpectedCalls(p, LAMBDA v : Bind(v, p)))
    /\ [][\A p \in Proxies :
              Allowed(p) => /\ map'[p] = map[p]
                            /\ pageLog'[p] = pageLog[p]
                            /\ resolvedBag'[p] = resolvedBag[p]]_vars

\* an allowed proxy on which page script wrote a handler, registered a
\* listener and called send or close
C12_Witness ==
    \E p \in Live :
        /\ Allowed(p)
        /\ \E c \in Range(forwarded[p]) : c.op = "set" /\ IsFunction(c.value)
        /\ \E c \in Range(forwarded[p]) : c.op = "addEventListener"
        /\ \E c \in Range(forwarded[p]) : c.op \in {"send", "close"}

\* the real sockets constructed for p by a response handler
Constructions(p) ==
    {i \in 1..Len(sockets) : sockets[i].owner = p /\ ~sockets[i].transient}

\* two outcomes of a response handler make the same decision: the same
\* sockets constructed and replayed, the same handlers called, the same
\* proxies allowed
SameDecision(a, b) ==
    /\ a.sockets = b.sockets
    /\ a.errorCalls = b.errorCalls
    /\ a.resolvedBag = b.resolvedBag
    /\ a.threw = b.threw
    /\ \A q \in Live : a.map[q].kind = b.map[q].kind
    /\ \A q \in Live : IsWrapped(a.map[q]) => a.map[q] = b.map[q]

C14_IdsCountUpSubscribedOnce ==
    /\ currentRequestId = Len(posted)
    /\ \A n \in 1..Len(posted) :
           /\ posted[n].requestId = n
           /\ posted[n].direction = DIRECTION_IN
           /\ posted[n].elementUrl = ctorLog[n].url
    /\ \A r \in requestsMap :
           /\ r.requestId \in 1..currentRequestId
           /\ r.wrapper = r.requestId
    /\ subscribed = IF posted = <<>> THEN 0 ELSE 1
    /\ (impl = "A" /\ channel = "message") => Len(posted) = created

\* three requests were sent, the replies to the first two were handled and
\* the third is waiting
C14_Witness ==
    /\ Len(posted) = 3
    /\ decisions[1] # <<>> /\ decisions[2] # <<>> /\ decisions[3] = <<>>
    /\ requestsMap = {[requestId |-> 3, wrapper |-> 3]}

(***************************************************************************)
(* C15: on the signal channel every reply handled resolves the proxy the   *)
(* request table holds for its correlation id, as the block value of the   *)
(* reply says (block: the buffered onerror is called if it is a function,  *)
(* no socket is constructed and the proxy is not allowed; allow: no        *)
(* onerror is called, and the proxy is allowed with a new socket of its    *)
(* own unless the native constructor throws), and changes no other proxy,  *)
(* no existing socket and no other entry of the request table.             *)
(***************************************************************************)
C15_ReplyResolvesItsProxyOnly ==
    [][\A p \in Proxies :
          replies'[p] # replies[p] =>
              LET e == replies'[p][Len(replies'[p])]
                  h == GetOwn(map[p].properties, "onerror")
              IN /\ replies'[p] = Append(replies[p], e)
                 /\ [requestId |-> e.requestId, wrapper |-> p] \in requestsMap
                 /\ posted[e.requestId].elementUrl = ctorLog[p].url
                 /\ IF e.block
                    THEN /\ sockets' = sockets
                         /\ map'[p].kind = map[p].kind
                         /\ errorCalls'[p] =
                                IF IsFunction(h)
                                THEN Append(errorCalls[p],
                                            [handler |-> h, readyState |-> CONNECTING])
                                ELSE errorCalls[p]
                    ELSE /\ errorCalls'[p] = errorCalls[p]
                         /\ \/ map'[p] = map[p] /\ sockets' = sockets
                            \/ /\ Len(sockets') = Len(sockets) + 1
                               /\ map'[p] = SocketRef(Len(sockets'))
                               /\ sockets'[Len(sockets')].owner = p
                               /\ sockets'[Len(sockets')].url = ctorLog[p].url
                 /\ \A i \in 1..Len(sockets) : sockets'[i] = sockets[i]
                 /\ \A q \in Proxies \ {p} :
                        /\ map'[q] = map[q]
                        /\ decisions'[q] = decisions[q]
                        /\ errorCalls'[q] = errorCalls[q]
                        /\ resolvedBag'[q] = resolvedBag[q]
                        /\ replies'[q] = replies[q]
                 /\ requestsMap' \subseteq requestsMap
                 /\ requestsMap \ requestsMap'
                        \subseteq {[requestId |-> e.requestId, wrapper |-> p]}]_vars

\* three proxies of the signal channel: the first blocked, the second
\* allowed, the third still waiting for its reply
C15_Witness ==
    /\ created = 3
    /\ ~Allowed(1) /\ replies[1] # <<>> /\ replies[1][1].block
    /\ Allowed(2) /\ replies[2] # <<>>
    /\ Pending(3) /\ replies[3] = <<>>
    /\ [requestId |-> 3, wrapper |-> 3] \in requestsMap

\* a message the listener is to ignore: without data, without a direction,
\* with a direction that is not the tag of a reply, or a reply whose
\* correlation id is not in the request table
Unsolicited(event) ==
    \/ ~event.data
    \/ event.direction = ""
    \/ event.direction # DIRECTION_OUT
    \/ \A r \in requestsMap : r.requestId # event.requestId

Abandoned(p) ==
    /\ decisions[p] # <<>>
    /\ decisions[p][Len(decisions[p])] = "allow"
    /\ IsBag(map[p])
    /\ Constructions(p) = {}

\* the listeners and properties the bag of p holds for what page script
\* wrote and registered while the entry of p was the bag
BufferedListeners(p) ==
    [k \in 1..Len(Registrations(p)) |->
        [ev |-> Registrations(p)[k].name, cb |-> Bind(Registrations(p)[k].value, p),
         fl |-> Registrations(p)[k].fl]]

BufferedProperties(p) ==
    [k \in 1..Len(FirstNames(Writes(p))) |->
        [name |-> FirstNames(Writes(p))[k],
         value |-> Bind(LastWritten(Writes(p), FirstNames(Writes(p))[k]), p)]]

(***************************************************************************)
(* C17: when the native constructor threw in an allow resolution, nothing  *)
(* was replayed, the side-table entry of the proxy is its bag with all it  *)
(* buffered, no request of the proxy is left in the request table and its  *)
(* image is done, and readyState reads CONNECTING; and no later step       *)
(* changes that: no response is handled for the proxy, no onerror is       *)
(* called, no socket of the proxy is made or called.                       *)
(***************************************************************************)
C17_AbandonedOnNativeThrow ==
    /\ [](\A p \in Live :
             Abandoned(p) =>
                 /\ resolvedBag[p] = NoEntry
                 /\ map[p].listeners = BufferedListeners(p)
                 /\ map[p].properties = BufferedProperties(p)
                 /\ \A r \in requestsMap : r.wrapper # p
                 /\ ~img[p].loading
                 /\ ReadProperty(p, "readyState") = Num(CONNECTING)
                 /\ forwarded[p] = <<>>)
    /\ [][\A p \in Live :
              Abandoned(p) =>
                  /\ Abandoned(p)'
                  /\ decisions'[p] = decisions[p]
                  /\ errorCalls'[p] = errorCalls[p]
                  /\ \A i \in 1..Len(sockets') :
                         sockets'[i].owner = p =>
                             i <= Len(sockets) /\ sockets'[i] = sockets[i]]_vars

\* a proxy of the signal channel that had buffered a handler and a listener
\* when the native constructor threw, beside a second proxy
C17_Witness ==
    /\ impl = "A" /\ channel = "message"
    /\ created = 2
    /\ Abandoned(1)
    /\ Writes(1) # <<>> /\ Registrations(1) # <<>>

(***************************************************************************)
(* C18: a proxy for which no response was handled is pending and reads     *)
(* readyState CONNECTING, whatever page script did with it; and the only   *)
(* step in which a proxy leaves the pending state is one that handles a    *)
(* response for that proxy.                                                *)
(***************************************************************************)
C18_PendingUntilResponse ==
    /\ [](\A p \in Live :
             decisions[p] = <<>> =>
                 /\ Pending(p)
                 /\ ReadProperty(p, "readyState") = Num(CONNECTING)
                 /\ errorCalls[p] = <<>>
                 /\ Constructions(p) = {})
    /\ [][\A p \in Live :
              (Pending(p) /\ ~Pending(p)') =>
                  /\ Len(decisions'[p]) = Len(decisions[p]) + 1
                  /\ \/ Len(replies'[p]) = Len(replies[p]) + 1
                     \/ img[p].fired = "none" /\ img'[p].fired # "none"]_vars

\* a proxy whose response never came, after page script wrote a property of
\* it and registered a listener on it, while another proxy was resolved
C18_Witness ==
    \E p, q \in Live :
        /\ decisions[p] = <<>>
        /\ Writes(p) # <<>> /\ Registrations(p) # <<>>
        /\ decisions[q] # <<>>

ClaimedDefault(prop) ==
    CASE prop = "binaryType" -> Str(<<"blob">>)
      [] prop \in {"bufferedAmount", "readyState"} -> Num(0)
      [] prop \in {"extensions", "protocol", "url"} -> Str(<<>>)
      [] prop \in {"onclose", "onerror", "onmessage", "onopen"} -> Null

(***************************************************************************)
(* C20: while a proxy is pending a read of a property returns the value    *)
(* the last write buffered for it (a function in its form bound to the     *)
(* proxy), or the default of the property if it was never written; url     *)
(* reads '' and not the url given to the constructor; and a write to a     *)
(* read-only property changes nothing.                                     *)
(***************************************************************************)
C20_PendingReads ==
    /\ [](\A p \in Live :
             Pending(p) =>
                 LET w == Writes(p)
                     written == {w[i].name : i \in 1..Len(w)}
                 IN /\ \A prop \in AllProps :
                           ReadProperty(p, prop) =
                               IF prop \in written
                               THEN Bind(LastWritten(w, prop), p)
                               ELSE ClaimedDefault(prop)
                    /\ ReadProperty(p, "url") = Str(<<>>)
                    /\ ReadProperty(p, "url") # Str(ctorLog[p].url))
    /\ [][\A p \in Live, prop \in PropsWritten \ WritableProps :
              SetProperty(p, prop, Num(1)) => UNCHANGED vars]_vars

\* a pending proxy of which a property was written twice with different
\* values and another property once
C20_Witness ==
    \E p \in Live :
        /\ Pending(p)
        /\ \E i, j \in 1..Len(Writes(p)) :
               /\ i < j
               /\ Writes(p)[i].name = Writes(p)[j].name
               /\ Writes(p)[i].value # Writes(p)[j].value
        /\ \E i \in 1..Len(Writes(p)) : Writes(p)[i].name = "binaryType"

(***************************************************************************)
(* C21: on the signal channel the tag of a request differs from the tag of *)
(* a reply, and in every state the listener given one of the requests the  *)
(* channel itself posted calls no callback, does not throw, removes no     *)
(* entry of the request table and changes no proxy, bag or socket.         *)
(***************************************************************************)
C21_OwnRequestNeverResolves ==
    /\ DIRECTION_IN # DIRECTION_OUT
    /\ \A i \in 1..Len(posted), ok \in BOOLEAN :
           /\ posted[i].direction = DIRECTION_IN
           /\ ~Accepts(posted[i])
           /\ ~Receive(posted[i], ok).called
           /\ ~Receive(posted[i], ok).out.threw
           /\ Receive(posted[i], ok).out = NoChange(FALSE)
           /\ Receive(posted[i], ok).requestsMap = requestsMap

\* a request the channel posted whose correlation id is in the request
\* table, for a proxy still pending with something buffered, while the
\* listener is subscribed
C21_Witness ==
    /\ subscribed = 1
    /\ \E i \in 1..Len(posted) :
           /\ Lookup(posted[i].requestId) = {[requestId |-> i, wrapper |-> i]}
           /\ Pending(i)
           /\ pageLog[i] # <<>>

(***************************************************************************)
(* C22 (as claimed): once a block decision was delivered for a proxy, the  *)
(* listeners registered on it with addEventListener, before the block or   *)
(* after it, stay in its bag: no socket made for the proxy ever gets an    *)
(* addEventListener call, so that no event can invoke them.                *)
(* Fails: on the signal channel a throwing onerror keeps the request entry *)
(* (C8), and a later allow reply replays the listeners on a real socket.   *)
(***************************************************************************)
C22_BlockedListenersStayBuffered ==
    \A p \in Live :
        Blocked(p) =>
            /\ IsBag(map[p])
            /\ map[p].listeners = BufferedListeners(p)
            /\ \A i \in 1..Len(sockets) :
                   sockets[i].owner = p =>
                       \A k \in 1..Len(sockets[i].calls) :
                           sockets[i].calls[k].op # "addEventListener"

\* readyState as page script reads it on the proxy
ReadyState(p) == ReadProperty(p, "readyState").n

(***************************************************************************)
(* C23: every call of a buffered onerror finds readyState CONNECTING (0)   *)
(* when it reads it on the proxy; the readyState of a proxy that is not    *)
(* allowed becomes CLOSED (3) only in a step that handles a block for it   *)
(* in which the handler, if one is called, was called with readyState 0    *)
(* and returned normally; in implementation A it does become CLOSED in     *)
(* such a step and stays CONNECTING when the handler throws.  (In          *)
(* implementation B readyState is never written: nothing is forced.)       *)
(***************************************************************************)
C23_OnErrorBeforeClosed ==
    /\ [](\A p \in Live :
             /\ \A k \in 1..Len(errorCalls[p]) : errorCalls[p][k].readyState = CONNECTING
             /\ (IsBag(map[p]) /\ ReadyState(p) = CLOSED) => Blocked(p))
    /\ [][\A p \in Live :
              LET h == GetOwn(map[p].properties, "onerror")
                  called == errorCalls'[p] # errorCalls[p]
              IN /\ called =>
                        /\ errorCalls'[p] =
                               Append(errorCalls[p], [handler |-> h, readyState |-> CONNECTING])
                        /\ ReadyState(p) = CONNECTING
                        /\ IsFunction(h)
                        /\ ReadyState(p)' = IF impl = "A" /\ ~Throws(h)
                                            THEN CLOSED ELSE CONNECTING
                 /\ (IsBag(map[p]) /\ ReadyState(p) # CLOSED /\ ReadyState(p)' = CLOSED
                        /\ IsBag(map'[p])) =>
                        /\ decisions'[p] = Append(decisions[p], "block")
                        /\ called => ~Throws(h)]_vars

\* implementation A: a proxy whose buffered onerror was called by a block,
\* read readyState 0 and returned, and whose readyState now reads CLOSED
C23_Witness ==
    /\ impl = "A"
    /\ \E p \in Live :
           /\ Len(errorCalls[p]) = 1
           /\ errorCalls[p][1].readyState = CONNECTING
           /\ ~Throws(errorCalls[p][1].handler)
           /\ IsBag(map[p]) /\ ReadyState(p) = CLOSED

====
